---- MODULE Spec2Model ----
(***************************************************************************)
(* Guided-Translator: the translation orchestrator of                      *)
(* src/src/services/geminiService.ts (key pool, translateChunk,            *)
(* translateChunks), the term matcher and the coverage it computes, the    *)
(* chunk manager (src/README.md), the layout thresholds, left margin and   *)
(* page reconstruction of src/src/services/documentParser.ts, the glossary *)
(* validation of src/unnamed/part_001, the App component of                *)
(* src/unnamed/part_003, the projects store (StorageService) and the user  *)
(* glossary of src/src/services/userGlossaryService.ts.                    *)
(*                                                                         *)
(* Strings are sequences of one-character strings, so that matching,       *)
(* lower-casing and offsets are computed rather than assumed.  Messages    *)
(* (errors, status lines, translations) are sequences of tokens.           *)
(*                                                                         *)
(* Spec is the service driven by any client; RunSpec is one run followed   *)
(* to its end; ReconfigSpec is one run with the key list replaced at any   *)
(* suspension point; AppSpec is the service driven by the App; MatchSpec,  *)
(* ChunkSpec, LayoutSpec, MarginSpec and PageSpec apply the pure functions *)
(* to generated inputs; ProjectsSpec interleaves two updates of a stored   *)
(* project; GlossarySpec is the user glossary under any sequence of calls. *)
(***************************************************************************)
EXTENDS Integers, Sequences, FiniteSets, TLC

\* ------------------------------------------------------------------ bounds
MaxChunks == 2      \* longest chunk list handed to translateChunks
MaxKeys == 3        \* largest key pool handed to setApiKeys
MaxMatchLen == 4    \* longest generated text handed to the term matcher
MaxEntries == 2     \* longest generated glossary handed to the term matcher
MaxRuns == 6        \* most text runs on a page handed to analyzeDocumentLayout
MaxTextLen == 6     \* longest text of the exhaustive family handed to splitIntoChunks
MaxPieces == 5      \* most pieces of a composed text handed to splitIntoChunks
MaxBudget == 3      \* largest token budget handed to splitIntoChunks

\* ------------------------------------------------------- program constants
maxRetries == 5
baseDelay == 3000
interCallDelay == 2000

\* =================================================================== text
Letters ==
    {"a", "b", "c", "d", "e", "f", "g", "h", "i", "j", "k", "l", "m",
     "n", "o", "p", "q", "r", "s", "t", "u", "v", "w", "x", "y", "z"}

\* the characters a regex counts as \w, as far as the model alphabet has them
WordChars == Letters \cup {"A", "B", "_", "0"}

IsWordChar(c) == c \in WordChars

\* String.prototype.toLowerCase on one character of the model alphabet
LowerChar(c) == CASE c = "A" -> "a" [] c = "B" -> "b" [] OTHER -> c

toLowerCase(s) == [k \in 1..Len(s) |-> LowerChar(s[k])]

\* is there a word character at 1-based index k of t (FALSE outside t)
WordAt(t, k) == k >= 1 /\ k <= Len(t) /\ IsWordChar(t[k])

\* regex \b just before 1-based index k (k = Len(t)+1 is the end of input)
WordBoundary(t, k) == WordAt(t, k - 1) # WordAt(t, k)

\* the literal lit occurs in t starting at 1-based index k
LiteralAt(t, lit, k) ==
    /\ k >= 1
    /\ k + Len(lit) - 1 <= Len(t)
    /\ \A j \in 1..Len(lit) : t[k + j - 1] = lit[j]

\* the regex  \b lit \b  matches in t starting at 1-based index k
BoundedMatchAt(t, lit, k) ==
    /\ WordBoundary(t, k)
    /\ LiteralAt(t, lit, k)
    /\ WordBoundary(t, k + Len(lit))

\* RegExp.prototype.test for  \b lit \b  (no g flag: search from the start)
RegexTest(t, lit) == \E k \in 1..(Len(t) + 1) : BoundedMatchAt(t, lit, k)

\* the `while ((match = regex.exec(text)) !== null)` loop of a g-flag regex:
\* 0-based start offsets of successive matches, each search resuming at the
\* end of the previous match (lastIndex); from is a 1-based index
RECURSIVE ExecAll(_, _, _)
ExecAll(t, lit, from) ==
    LET hits == {k \in from..(Len(t) + 1) : BoundedMatchAt(t, lit, k)}
    IN  IF hits = {} THEN <<>>
        ELSE LET p == CHOOSE k \in hits : \A h \in hits : k <= h
                 step == IF Len(lit) = 0 THEN 1 ELSE Len(lit)
             IN  <<p - 1>> \o ExecAll(t, lit, p + step)

\* ================================================================ glossary
\* Array.prototype.filter
RECURSIVE SelectEntries(_, _, _)
SelectEntries(text, glossary, k) ==
    IF k > Len(glossary) THEN <<>>
    ELSE (IF RegexTest(toLowerCase(text), toLowerCase(glossary[k].english))
            THEN <<glossary[k]>> ELSE <<>>)
         \o SelectEntries(text, glossary, k + 1)

findRelevantTerms(text, glossary) == SelectEntries(text, glossary, 1)

\* stable insertion of e into a list sorted by descending english length
RECURSIVE InsertByLength(_, _)
InsertByLength(sorted, e) ==
    IF sorted = <<>> THEN <<e>>
    ELSE IF Len(Head(sorted).english) >= Len(e.english)
         THEN <<Head(sorted)>> \o InsertByLength(Tail(sorted), e)
         ELSE <<e>> \o sorted

\* [...glossary].sort((a, b) => b.english.length - a.english.length), stable
RECURSIVE SortByLengthDesc(_)
SortByLengthDesc(glossary) ==
    IF glossary = <<>> THEN <<>>
    ELSE InsertByLength(SortByLengthDesc(SubSeq(glossary, 1, Len(glossary) - 1)),
                        glossary[Len(glossary)])

\* the pattern identifyTermsInText builds for a term: `\\b${escapedTerm} \\b`
\* (the escaped term, one space, then the closing \b)
TermPattern(termLower) == termLower \o <<" ">>

RECURSIVE MatchEntries(_, _, _)
MatchEntries(textLower, sorted, k) ==
    IF k > Len(sorted) THEN <<>>
    ELSE LET entry == sorted[k]
             positions == ExecAll(textLower, TermPattern(toLowerCase(entry.english)), 1)
         IN  (IF Len(positions) > 0
                THEN <<[english |-> entry.english, chinese |-> entry.chinese,
                        positions |-> positions, source |-> "glossary"]>>
                ELSE <<>>)
             \o MatchEntries(textLower, sorted, k + 1)

identifyTermsInText(text, glossary) ==
    MatchEntries(toLowerCase(text), SortByLengthDesc(glossary), 1)

\* ================================================================ messages
\* error.message?.includes('429') || error.status === 429
IsRateLimit(error) ==
    (\E k \in 1..Len(error.message) : error.message[k] = "429") \/ error.status = 429

\* `${error}` of an Error object
ErrorText(error) == <<"Error: ">> \o error.message

\* line 112
ExhaustedMessage(chunk, error) ==
    <<"Failed to translate chunk ", chunk.id, " after ", ToString(maxRetries), " retries: ">>
        \o ErrorText(error)

\* line 124
GenericMessage(chunk, error) ==
    <<"Failed to translate chunk ", chunk.id, ": ">> \o ErrorText(error)

\* the catch block without the `...chunk` spread
FailedChunk_noSpread(chunk, message) ==
    [id |-> "", text |-> <<>>, position |-> 0, type |-> "paragraph",
     translation |-> <<"[Error: ">> \o message \o <<"]">>,
     matchedTerms |-> <<>>, newTerms |-> <<>>]

\* the catch block storing the bare message, without the marker
FailedChunk_noMarker(chunk, message) ==
    [id |-> chunk.id, text |-> chunk.text, position |-> chunk.position,
     type |-> chunk.type,
     translation |-> message,
     matchedTerms |-> <<>>, newTerms |-> <<>>]

\* lines 257-262: the record pushed by the catch block of translateChunks
FailedChunk(chunk, message) ==
    [id |-> chunk.id, text |-> chunk.text, position |-> chunk.position,
     type |-> chunk.type,
     translation |-> <<"[Error: ">> \o message \o <<"]">>,
     matchedTerms |-> <<>>, newTerms |-> <<>>]

\* the catch block only logs the error (line 256) and pushes nothing
pushFailed_logOnly(list, chunk, message) == list

\* lines 257-262: translatedChunks.push({...})
pushFailed(list, chunk, message) == Append(list, FailedChunk(chunk, message))

\* String.prototype.trim on a token sequence
IsSpace(tok) == tok \in {" ", "NL"}

RECURSIVE TrimStart(_)
TrimStart(s) == IF s # <<>> /\ IsSpace(Head(s)) THEN TrimStart(Tail(s)) ELSE s

RECURSIVE TrimEnd(_)
TrimEnd(s) ==
    IF s # <<>> /\ IsSpace(s[Len(s)]) THEN TrimEnd(SubSeq(s, 1, Len(s) - 1)) ELSE s

Trim(s) == TrimEnd(TrimStart(s))

StartsWith(s, p) == Len(s) >= Len(p) /\ SubSeq(s, 1, Len(p)) = p

Drop(s, n) == SubSeq(s, n + 1, Len(s))

\* .replace(/^FENCE(json|markdown)?NL?/, '') where FENCE is the three-backtick
\* code fence and NL the newline
StripOpeningFence(s) ==
    IF ~StartsWith(s, <<"FENCE">>) THEN s
    ELSE LET a == Drop(s, 1)
             b == IF a # <<>> /\ Head(a) \in {"json", "markdown"} THEN Tail(a) ELSE a
         IN  IF b # <<>> /\ Head(b) = "NL" THEN Tail(b) ELSE b

\* .replace(/FENCE$/, '')
StripClosingFence(s) ==
    IF s # <<>> /\ s[Len(s)] = "FENCE" THEN SubSeq(s, 1, Len(s) - 1) ELSE s

\* .replace(/^(Here is the )?translation:?\s*/i, '')
StripPrefix(s) ==
    LET a == IF StartsWith(s, <<"Here is the ", "translation">>) THEN Drop(s, 1) ELSE s
    IN  IF ~StartsWith(a, <<"translation">>) THEN s
        ELSE LET b == Tail(a)
                 c == IF b # <<>> /\ Head(b) = ":" THEN Tail(b) ELSE b
             IN  TrimStart(c)

cleanResponse(text) ==
    Trim(StripPrefix(StripClosingFence(StripOpeningFence(Trim(text)))))

\* lines 85-90: the record translateChunk returns
TranslatedChunk(chunk, glossary, response) ==
    [id |-> chunk.id, text |-> chunk.text, position |-> chunk.position,
     type |-> chunk.type,
     translation |-> cleanResponse(response),
     matchedTerms |-> identifyTermsInText(chunk.text, glossary),
     newTerms |-> <<>>]

\* ============================================================ input domains
\* pool(n): n distinct credentials, named 1..n
pool(n) == [j \in 1..n |-> j]

\* import.meta.env.VITE_API_KEY || ''
EnvKey == 0

KeyLists == {pool(n) : n \in 0..MaxKeys}

Str_ab_a == <<"A", "b", " ", "a">>
Str_a_dot == <<"a", ".">>

Chunk0 == [id |-> "chunk-0", text |-> Str_ab_a, position |-> 0, type |-> "paragraph"]
Chunk1 == [id |-> "chunk-1", text |-> Str_a_dot, position |-> 1, type |-> "heading"]

ChunkPool == {Chunk0, Chunk1}

ChunkLists == UNION {[1..n -> ChunkPool] : n \in 0..MaxChunks}

Glossaries ==
    {<<[english |-> <<"a">>, chinese |-> <<"zh-a">>, source |-> "csv"],
       [english |-> <<"a", "b">>, chinese |-> <<"zh-ab">>, source |-> "csv"]>>}

\* what result.response.text() may hold
Responses ==
    {<<"ZH">>,
     <<"FENCE", "json", "NL", "ZH", "NL", "FENCE">>,
     <<" ", "Here is the ", "translation", ":", " ", "ZH", "NL">>}

\* what model.generateContent may reject with (status 0: no status property)
Errors ==
    {[message |-> <<"[", "429", " Too Many Requests]">>, status |-> 0],
     [message |-> <<"Resource exhausted">>, status |-> 429],
     [message |-> <<"[", "500", " Internal]">>, status |-> 500]}

\* no settled translateChunk promise is waiting to be consumed
None == [settled |-> FALSE, ok |-> FALSE, value |-> <<>>, message |-> <<>>]

\* =================================================================== state
VARIABLES
    KEY_POOL,           \* line 8
    currentKeyIndex,    \* line 9
    genAI,              \* line 10: the credential the client object holds
    pc,                 \* where the batch is suspended
    chunks, glossary,   \* arguments of translateChunks
    onProgress, onStatusUpdate,  \* TRUE when the callback is supplied
    i,                  \* loop index of translateChunks
    translatedChunks,   \* line 236
    retries, keysTried, \* lines 57, 60
    settled,            \* how the current translateChunk promise settled
    inFlight,           \* remote generateContent calls not yet returned
    timer,              \* delay (ms) of the pending setTimeout, 0 if none
    progressLog,        \* arguments of the onProgress invocations of the run
    statusLog,          \* onStatusUpdate invocations of the current translateChunk
    rotations,          \* rotateKey calls that rotated, current translateChunk
    backoffs,           \* backoff timers started, current translateChunk
    remoteCalls,        \* generateContent calls issued, current translateChunk
    cycleAttempts,      \* credentials used since the last backoff (or call start)
    cycleSignals,       \* rate-limit signals since the last backoff (or call start)
    fates,              \* how translateChunk settled for each chunk of the run so far
    calledChunks,       \* indices of the chunks generateContent was called for
    app,                \* state of the App component (glossary, document, chunks, status)
    calc,               \* a pure function of the services: its arguments, then its result
    store               \* browser storage: the projects store, the user glossary item

keyVars == <<KEY_POOL, currentKeyIndex, genAI>>
argVars == <<chunks, glossary, onProgress, onStatusUpdate>>
callVars == <<retries, keysTried>>
histVars == <<statusLog, rotations, backoffs, remoteCalls, cycleAttempts, cycleSignals>>
runHist == <<fates, calledChunks>>
sideVars == <<app, calc, store>>
serviceVars == <<keyVars, pc, argVars, i, translatedChunks, callVars, settled,
                 inFlight, timer, progressLog, histVars, runHist>>

vars == <<KEY_POOL, currentKeyIndex, genAI, pc, chunks, glossary, onProgress,
          onStatusUpdate, i, translatedChunks, retries, keysTried, settled,
          inFlight, timer, progressLog, statusLog, rotations, backoffs,
          remoteCalls, cycleAttempts, cycleSignals, fates, calledChunks, app, calc,
          store>>

\* nothing stored yet, no storage call pending
StoreInit == [stage |-> "unused"]

\* useState initial values of App (lines 20-24)
AppInit ==
    [glossary |-> <<>>, document |-> <<>>, chunks |-> <<>>,
     translatedChunks |-> <<>>, status |-> "idle"]

\* no function is being evaluated
NoCalc == [stage |-> "none"]

ServiceInit ==
    /\ KEY_POOL = <<EnvKey>>
    /\ currentKeyIndex = 0
    /\ genAI = EnvKey
    /\ pc = "idle"
    /\ chunks = <<>> /\ glossary = <<>>
    /\ onProgress = FALSE /\ onStatusUpdate = FALSE
    /\ i = 0
    /\ translatedChunks = <<>>
    /\ retries = 0 /\ keysTried = 0
    /\ settled = None
    /\ inFlight = {}
    /\ timer = 0
    /\ progressLog = <<>>
    /\ statusLog = <<>>
    /\ rotations = 0 /\ backoffs = 0 /\ remoteCalls = 0
    /\ cycleAttempts = <<>> /\ cycleSignals = 0
    /\ fates = <<>> /\ calledChunks = {}

Init ==
    /\ ServiceInit
    /\ app = AppInit /\ calc = NoCalc /\ store = StoreInit

\* ============================================================= key manager
\* the cursor survives a new key list
cursorForNewKeys_kept(index) == index

\* line 15
cursorForNewKeys(index) == 0

\* lines 12-19
installKeys(keys) ==
    /\ IF Len(keys) > 0
         THEN /\ KEY_POOL' = keys
              /\ currentKeyIndex' = cursorForNewKeys(currentKeyIndex)
              /\ genAI' = keys[1]
         ELSE UNCHANGED keyVars
    /\ UNCHANGED <<pc, argVars, i, translatedChunks, callVars, settled, inFlight,
                   timer, progressLog, histVars, runHist>>
    /\ UNCHANGED sideVars

\* lines 12-19; in Spec the key list is configured between runs
setApiKeys(keys) ==
    /\ pc = "idle"
    /\ installKeys(keys)

\* lines 12-19, called from the settings form while translateChunk is
\* suspended on a remote call or on a timer
setApiKeysWhileSuspended(keys) ==
    /\ pc \in {"calling", "backoff", "interDelay"}
    /\ installKeys(keys)

\* line 22: rotateKey returns false without rotating
rotateRefused(keyPool) == Len(keyPool) <= 1

\* the cursor advanced by two
nextKeyIndex_skip(keyPool, index) == (index + 2) % Len(keyPool)

\* line 24
nextKeyIndex(keyPool, index) == (index + 1) % Len(keyPool)

\* the client is rebuilt from the first key of the pool
clientFor_first(keyPool, index) == keyPool[1]

\* line 25: new GoogleGenerativeAI(KEY_POOL[currentKeyIndex])
clientFor(keyPool, index) == keyPool[index + 1]

\* one more rotation per cycle
mayRotate_inclusive(tried, keyPool) == tried <= Len(keyPool)

\* line 95
mayRotate(tried, keyPool) == tried < Len(keyPool)

\* the delay doubled at every retry
backoffDelay_doubling(retryCount) == baseDelay * 2 ^ (retryCount - 1)

\* line 109
backoffDelay(retryCount) == baseDelay * retryCount

\* the ceiling test written with >= instead of >
retriesExhausted_atCeiling(retryCount) == retryCount >= maxRetries

\* line 111
retriesExhausted(retryCount) == retryCount > maxRetries

\* line 108
bumpRetries(retryCount) == retryCount + 1

\* line 57
initialRetries(previous) == 0

\* the catch block without the test of line 93: every error is retried
catchDecision_retryAll(error, tried, keyPool, retryCount) ==
    IF mayRotate(tried, keyPool) /\ ~rotateRefused(keyPool)
      THEN "rotate"
      ELSE IF retriesExhausted(bumpRetries(retryCount))
             THEN "exhausted"
             ELSE "backoff"

\* lines 91-125: which branch of the catch block an error takes
catchDecision(error, tried, keyPool, retryCount) ==
    IF IsRateLimit(error)
      THEN IF mayRotate(tried, keyPool) /\ ~rotateRefused(keyPool)
             THEN "rotate"
             ELSE IF retriesExhausted(bumpRetries(retryCount))
                    THEN "exhausted"
                    ELSE "backoff"
      ELSE "fail"

\* =========================================================== remote calls
\* model.generateContent(prompt) issued for the chunk at index k with the
\* credential the client holds; the prompt carries the relevant terms
RemoteCall(cs, g, k, key) ==
    [chunk |-> k, key |-> key, terms |-> findRelevantTerms(cs[k + 1].text, g)]

issue(flights, call) == flights \cup {call}

\* the call is not awaited: it stays pending while the code goes on
resolve_kept(flights, k) == flights

\* the awaited call has returned
resolve(flights, k) == {c \in flights : c.chunk # k}

\* every chunk starts again from the first key of the pool
entryClient_first(client, keyPool) == keyPool[1]

\* line 65: the first attempt uses the module-level client as it stands
entryClient(client, keyPool) == client

\* lines 51-79: translateChunk from its entry to the first await
EnterChunk(cs, g, k, flights) ==
    /\ retries' = initialRetries(retries)
    /\ keysTried' = 0
    /\ settled' = None
    /\ pc' = "calling"
    /\ timer' = 0
    /\ inFlight' = issue(flights, RemoteCall(cs, g, k, entryClient(genAI, KEY_POOL)))
    /\ calledChunks' = IF k = 0 THEN {0} ELSE calledChunks \cup {k}
    /\ statusLog' = <<>>
    /\ rotations' = 0 /\ backoffs' = 0
    /\ remoteCalls' = 1
    /\ cycleAttempts' = <<entryClient(genAI, KEY_POOL)>>
    /\ cycleSignals' = 0

\* line 100 / line 116: the text handed to onStatusUpdate
RotateStatus(index) == [kind |-> "switch", value |-> index + 1]
BackoffStatus(delay) == [kind |-> "pause", value |-> delay \div 1000]

\* the callback is never invoked
notify_dropped(log, supplied, message) == log

notify(log, supplied, message) == IF supplied THEN Append(log, message) ELSE log

\* ============================================================ translateChunks
\* lines 236-244: the call of translateChunks up to its first await
translateChunksEntry(cs, g, p, s) ==
    /\ pc = "idle"
    /\ chunks' = cs /\ glossary' = g
    /\ onProgress' = p /\ onStatusUpdate' = s
    /\ translatedChunks' = <<>>
    /\ progressLog' = <<>>
    /\ i' = 0
    /\ fates' = <<>>
    /\ IF Len(cs) > 0
         THEN EnterChunk(cs, g, 0, inFlight)
         ELSE /\ pc' = "done"
              /\ UNCHANGED <<callVars, settled, inFlight, timer, histVars, calledChunks>>
    /\ UNCHANGED keyVars

\* translateChunks called by a client of the service
StartRun(cs, g, p, s) ==
    /\ translateChunksEntry(cs, g, p, s)
    /\ UNCHANGED sideVars

\* lines 79-90: generateContent resolved; translateChunk returns
RemoteSuccess(response) ==
    /\ pc = "calling"
    /\ inFlight' = resolve(inFlight, i)
    /\ settled' = [settled |-> TRUE, ok |-> TRUE,
                   value |-> <<TranslatedChunk(chunks[i + 1], glossary, response)>>,
                   message |-> <<>>]
    /\ pc' = "returned"
    /\ fates' = Append(fates, "ok")
    /\ UNCHANGED <<keyVars, argVars, i, translatedChunks, callVars, timer,
                   progressLog, histVars, calledChunks>>
    /\ UNCHANGED sideVars

\* lines 93-104: rate-limit signal answered by a key rotation and an immediate retry
RateLimitRotate(error) ==
    /\ pc = "calling"
    /\ catchDecision(error, keysTried, KEY_POOL, retries) = "rotate"
    /\ currentKeyIndex' = nextKeyIndex(KEY_POOL, currentKeyIndex)
    /\ genAI' = clientFor(KEY_POOL, currentKeyIndex')
    /\ keysTried' = keysTried + 1
    /\ statusLog' = notify(statusLog, onStatusUpdate, RotateStatus(currentKeyIndex'))
    /\ inFlight' = issue(resolve(inFlight, i), RemoteCall(chunks, glossary, i, genAI'))
    /\ rotations' = rotations + 1
    /\ remoteCalls' = remoteCalls + 1
    /\ cycleAttempts' = Append(cycleAttempts, genAI')
    /\ cycleSignals' = cycleSignals + 1
    /\ UNCHANGED <<KEY_POOL, pc, argVars, i, translatedChunks, retries, settled,
                   timer, progressLog, backoffs, runHist>>
    /\ UNCHANGED sideVars

\* lines 93-119: rate-limit signal answered by a backoff timer
RateLimitBackoff(error) ==
    /\ pc = "calling"
    /\ catchDecision(error, keysTried, KEY_POOL, retries) = "backoff"
    /\ retries' = bumpRetries(retries)
    /\ statusLog' = notify(statusLog, onStatusUpdate, BackoffStatus(backoffDelay(retries')))
    /\ timer' = backoffDelay(retries')
    /\ pc' = "backoff"
    /\ inFlight' = resolve(inFlight, i)
    /\ backoffs' = backoffs + 1
    /\ cycleSignals' = cycleSignals + 1
    /\ UNCHANGED <<keyVars, argVars, i, translatedChunks, keysTried, settled,
                   progressLog, rotations, remoteCalls, cycleAttempts, runHist>>
    /\ UNCHANGED sideVars

\* lines 93-113: rate-limit signal with the retries used up; translateChunk throws
RateLimitExhausted(error) ==
    /\ pc = "calling"
    /\ catchDecision(error, keysTried, KEY_POOL, retries) = "exhausted"
    /\ retries' = bumpRetries(retries)
    /\ settled' = [settled |-> TRUE, ok |-> FALSE, value |-> <<>>,
                   message |-> ExhaustedMessage(chunks[i + 1], error)]
    /\ pc' = "returned"
    /\ inFlight' = resolve(inFlight, i)
    /\ cycleSignals' = cycleSignals + 1
    /\ fates' = Append(fates, "exhausted")
    /\ UNCHANGED <<keyVars, argVars, i, translatedChunks, keysTried, timer,
                   progressLog, statusLog, rotations, backoffs, remoteCalls,
                   cycleAttempts, calledChunks>>
    /\ UNCHANGED sideVars

\* lines 119-121, 62-79: the backoff timer fired; reset keysTried, loop, call again
BackoffFires ==
    /\ pc = "backoff"
    /\ keysTried' = 0
    /\ timer' = 0
    /\ IF retries <= maxRetries
         THEN /\ pc' = "calling"
              /\ inFlight' = issue(inFlight, RemoteCall(chunks, glossary, i, genAI))
              /\ remoteCalls' = remoteCalls + 1
              /\ cycleAttempts' = <<genAI>>
              /\ cycleSignals' = 0
              /\ UNCHANGED <<settled, fates>>
         ELSE \* line 128
              /\ pc' = "returned"
              /\ settled' = [settled |-> TRUE, ok |-> FALSE, value |-> <<>>,
                             message |-> <<"Unexpected error translation chunk ",
                                           chunks[i + 1].id>>]
              /\ fates' = Append(fates, "unexpected")
              /\ UNCHANGED <<inFlight, remoteCalls, cycleAttempts, cycleSignals>>
    /\ UNCHANGED <<keyVars, argVars, i, translatedChunks, retries, progressLog,
                   statusLog, rotations, backoffs, calledChunks>>
    /\ UNCHANGED sideVars

\* lines 122-125: any other error; translateChunk throws
RemoteError(error) ==
    /\ pc = "calling"
    /\ catchDecision(error, keysTried, KEY_POOL, retries) = "fail"
    /\ settled' = [settled |-> TRUE, ok |-> FALSE, value |-> <<>>,
                   message |-> GenericMessage(chunks[i + 1], error)]
    /\ pc' = "returned"
    /\ inFlight' = resolve(inFlight, i)
    /\ fates' = Append(fates, "error")
    /\ UNCHANGED <<keyVars, argVars, i, translatedChunks, callVars, timer,
                   progressLog, histVars, calledChunks>>
    /\ UNCHANGED sideVars

\* lines 247-249
reportProgress(log, supplied, index, total) ==
    IF supplied THEN Append(log, <<index + 1, total>>) ELSE log

\* the pause taken after the last chunk too
delayNeeded_always(index, total) == TRUE

\* line 252
delayNeeded(index, total) == index < total - 1

\* lines 244-254: translateChunk resolved; push, report progress, pause or finish
ResumeSuccess ==
    /\ pc = "returned"
    /\ settled.ok
    /\ translatedChunks' = Append(translatedChunks, settled.value[1])
    /\ progressLog' = reportProgress(progressLog, onProgress, i, Len(chunks))
    /\ settled' = None
    /\ IF delayNeeded(i, Len(chunks))
         THEN /\ pc' = "interDelay"
              /\ timer' = interCallDelay
              /\ i' = i
         ELSE /\ pc' = "done"
              /\ timer' = 0
              /\ i' = i + 1
    /\ UNCHANGED <<keyVars, argVars, callVars, inFlight, histVars, runHist>>
    /\ UNCHANGED sideVars

\* lines 253-254, 239-244: the inter-call timer fired; next iteration
InterDelayFires ==
    /\ pc = "interDelay"
    /\ i' = i + 1
    /\ EnterChunk(chunks, glossary, i + 1, inFlight)
    /\ UNCHANGED <<keyVars, argVars, translatedChunks, progressLog, fates>>
    /\ UNCHANGED sideVars

\* lines 255-264, 239-244: translateChunk rejected; push the failed marker and
\* go on with the next iteration (or return)
ResumeFailure ==
    /\ pc = "returned"
    /\ ~settled.ok
    /\ translatedChunks' = pushFailed(translatedChunks, chunks[i + 1], settled.message)
    /\ i' = i + 1
    /\ IF i + 1 < Len(chunks)
         THEN EnterChunk(chunks, glossary, i + 1, inFlight)
         ELSE /\ pc' = "done"
              /\ settled' = None
              /\ UNCHANGED <<callVars, inFlight, timer, histVars, calledChunks>>
    /\ UNCHANGED <<keyVars, argVars, progressLog, fates>>
    /\ UNCHANGED sideVars

\* line 266: the result is handed over, the locals are gone
translateChunksReturn ==
    /\ pc = "done"
    /\ pc' = "idle"
    /\ chunks' = <<>> /\ glossary' = <<>>
    /\ onProgress' = FALSE /\ onStatusUpdate' = FALSE
    /\ i' = 0
    /\ translatedChunks' = <<>>
    /\ retries' = 0 /\ keysTried' = 0
    /\ progressLog' = <<>>
    /\ statusLog' = <<>>
    /\ rotations' = 0 /\ backoffs' = 0 /\ remoteCalls' = 0
    /\ cycleAttempts' = <<>> /\ cycleSignals' = 0
    /\ fates' = <<>> /\ calledChunks' = {}
    /\ UNCHANGED <<keyVars, settled, inFlight, timer>>

\* the client of the service takes the result
ReturnResult ==
    /\ translateChunksReturn
    /\ UNCHANGED sideVars

Next ==
    \/ \E keys \in KeyLists : setApiKeys(keys)
    \/ \E cs \in ChunkLists, g \in Glossaries, p \in BOOLEAN, s \in BOOLEAN :
          StartRun(cs, g, p, s)
    \/ \E response \in Responses : RemoteSuccess(response)
    \/ \E error \in Errors : RateLimitRotate(error)
    \/ \E error \in Errors : RateLimitBackoff(error)
    \/ \E error \in Errors : RateLimitExhausted(error)
    \/ \E error \in Errors : RemoteError(error)
    \/ BackoffFires
    \/ ResumeSuccess
    \/ InterDelayFires
    \/ ResumeFailure
    \/ ReturnResult

Spec == Init /\ [][Next]_vars

RemoteReturns ==
    \/ \E response \in Responses : RemoteSuccess(response)
    \/ \E error \in Errors :
          \/ RateLimitRotate(error)
          \/ RateLimitBackoff(error)
          \/ RateLimitExhausted(error)
          \/ RemoteError(error)

\* a step of a started run: a remote call returns, a timer fires, or the
\* continuation of a settled promise runs
RunStep ==
    \/ RemoteReturns
    \/ BackoffFires
    \/ InterDelayFires
    \/ ResumeSuccess
    \/ ResumeFailure

\* One run of translateChunks from any state the key manager can be in
\* between runs (any pool set by setApiKeys, the cursor wherever earlier runs
\* left it), followed to its end: remote calls return, timers fire and
\* continuations run.
SegmentedChunks(n) == [k \in 1..n |-> IF k % 2 = 1 THEN Chunk0 ELSE Chunk1]

RunInit ==
    /\ KEY_POOL \in (KeyLists \ {<<>>}) \cup {<<EnvKey>>}
    /\ currentKeyIndex \in 0..(Len(KEY_POOL) - 1)
    /\ genAI = KEY_POOL[currentKeyIndex + 1]
    /\ pc = "idle"
    /\ chunks = <<>> /\ glossary = <<>>
    /\ onProgress = FALSE /\ onStatusUpdate = FALSE
    /\ i = 0
    /\ translatedChunks = <<>>
    /\ retries = 0 /\ keysTried = 0
    /\ settled = None
    /\ inFlight = {}
    /\ timer = 0
    /\ progressLog = <<>>
    /\ statusLog = <<>>
    /\ rotations = 0 /\ backoffs = 0 /\ remoteCalls = 0
    /\ cycleAttempts = <<>> /\ cycleSignals = 0
    /\ fates = <<>> /\ calledChunks = {}
    /\ app = AppInit /\ calc = NoCalc /\ store = StoreInit

RunStart ==
    \E n \in 0..MaxChunks, g \in Glossaries :
        StartRun(SegmentedChunks(n), g, TRUE, TRUE)

RunNext == RunStart \/ RunStep

RunSpec == RunInit /\ [][RunNext]_vars /\ WF_vars(RunStep)

\* One run of translateChunks over a document of two chunks, without callbacks
\* or glossary, started from the state after module load, with setApiKeys
\* called from the settings form at any point: before the run, and while
\* translateChunk is suspended.
TwoChunks == <<Chunk0, Chunk1>>

ReconfigStart == StartRun(TwoChunks, <<>>, FALSE, FALSE)

ReconfigNext ==
    \/ \E keys \in KeyLists : setApiKeys(keys)
    \/ \E keys \in KeyLists : setApiKeysWhileSuspended(keys)
    \/ ReconfigStart
    \/ RunStep

ReconfigSpec == Init /\ [][ReconfigNext]_vars

TypeOK ==
    /\ pc \in {"idle", "calling", "backoff", "returned", "interDelay", "done"}
    /\ currentKeyIndex \in 0..(Len(KEY_POOL) - 1)
    /\ genAI = KEY_POOL[currentKeyIndex + 1]
    /\ retries \in 0..(maxRetries + 1)
    /\ Len(translatedChunks) <= Len(chunks)

\* ============================================================ term matcher
\* lines 275-281: the lower-cased english of every match of every chunk
MatchedTermSet(translated) ==
    UNION {{toLowerCase(translated[k].matchedTerms[j].english) :
               j \in 1..Len(translated[k].matchedTerms)} : k \in 1..Len(translated)}

\* Math.round(num / den * 100) for num >= 0, den > 0
RoundPercent(num, den) == (200 * num + den) \div (2 * den)

\* lines 271-289
calculateCoverage(translated, entries) ==
    LET matched == Cardinality(MatchedTermSet(translated))
        total == Len(entries)
    IN  [matched |-> matched, total |-> total,
         percentage |-> IF total > 0 THEN RoundPercent(matched, total) ELSE 0]

MatchAlphabet == {"a", "b", " ", "."}

Strings(alphabet, n) == UNION {[1..k -> alphabet] : k \in 0..n}

Str_safety_device ==
    <<"s", "a", "f", "e", "t", "y", " ", "d", "e", "v", "i", "c", "e">>
Str_device == <<"d", "e", "v", "i", "c", "e">>
Str_the_safety_device_failed ==
    <<"t", "h", "e", " ">> \o Str_safety_device \o <<" ", "f", "a", "i", "l", "e", "d">>

Str_equipment == <<"e", "q", "u", "i", "p", "m", "e", "n", "t">>
Str_check_the_equipment ==
    <<"c", "h", "e", "c", "k", " ", "t", "h", "e", " ">> \o Str_equipment \o <<".">>

Entry(term) == [english |-> term, chinese |-> <<"zh:">> \o term, source |-> "csv"]

SafetyGlossary == <<Entry(Str_device), Entry(Str_safety_device)>>

MatchTerms == {<<"a">>, <<"A">>, <<"b">>, <<"a", " ", "b">>}

MatchGlossaries ==
    {[k \in DOMAIN terms |-> Entry(terms[k])] :
        terms \in UNION {[1..n -> MatchTerms] : n \in 0..MaxEntries}}

CoverTexts ==
    {<<"a", " ", "b", " ", "a">>, <<"b", " ", "a">>, <<"A", " ", "b", ".">>, <<"a">>}

\* the chunk texts of a document: one generated text, or a list of up to
\* MaxChunks texts of CoverTexts
MatchTextLists ==
    {<<t>> : t \in Strings(MatchAlphabet, MaxMatchLen)}
        \cup UNION {[1..n -> CoverTexts] : n \in 0..MaxChunks}

MatchInputs ==
    {[texts |-> ts, glossary |-> g] : ts \in MatchTextLists, g \in MatchGlossaries}
        \cup {[texts |-> <<Str_the_safety_device_failed>>, glossary |-> SafetyGlossary],
              [texts |-> <<Str_check_the_equipment>>, glossary |-> <<Entry(Str_equipment)>>]}

ChunkOf(texts, k) ==
    [id |-> "chunk_" \o ToString(k - 1), text |-> texts[k], position |-> k - 1,
     type |-> "paragraph"]

MatchInit ==
    /\ ServiceInit
    /\ app = AppInit /\ store = StoreInit
    /\ \E in \in MatchInputs :
          calc = [stage |-> "input", texts |-> in.texts, glossary |-> in.glossary]

\* lines 82-90: the record translateChunk builds for every chunk of the document
IdentifyTerms ==
    /\ calc.stage = "input"
    /\ calc' = [stage |-> "matched", texts |-> calc.texts, glossary |-> calc.glossary,
                translated |-> [k \in 1..Len(calc.texts) |->
                                   TranslatedChunk(ChunkOf(calc.texts, k),
                                                   calc.glossary, <<"ZH">>)]]
    /\ UNCHANGED <<serviceVars, app, store>>

\* part_003 line 89: calculateCoverage(translated, glossary)
ComputeCoverage ==
    /\ calc.stage = "matched"
    /\ calc' = [stage |-> "covered", texts |-> calc.texts, glossary |-> calc.glossary,
                translated |-> calc.translated,
                coverage |-> calculateCoverage(calc.translated, calc.glossary)]
    /\ UNCHANGED <<serviceVars, app, store>>

MatchNext == IdentifyTerms \/ ComputeCoverage

MatchSpec == MatchInit /\ [][MatchNext]_vars

\* ========================================================= layout thresholds
\* src/src/services/documentParser.ts, analyzeDocumentLayout.  Coordinates and
\* gaps are integers counting tenths of a PDF unit, thresholds are integers
\* counting hundredths, so that 0.1, x0.8, x1.5 and x1.2 are computed exactly.
NoLastY == -10              \* line 24: let lastY = -1
MinGap == 1                 \* line 37: gap > 0.1
HugeGap == 5000             \* line 37: gap < 500
MinSamples == 5             \* line 45
Fallback == [sameLine |-> 300, newLine |-> 1500, paragraphBreak |-> 3000]

Abs(x) == IF x < 0 THEN -x ELSE x

\* the larger bound of the samples test lowered by one
tooFewSamples_four(gaps) == Len(gaps) < MinSamples - 1

\* line 45
tooFewSamples(gaps) == Len(gaps) < MinSamples

\* lines 29-42: the loop over the text runs; an item is [blank, y]
RECURSIVE CollectGaps(_, _, _)
CollectGaps(items, k, lastY) ==
    IF k > Len(items) THEN <<>>
    ELSE IF items[k].blank THEN CollectGaps(items, k + 1, lastY)
    ELSE LET y == items[k].y
             gap == Abs(y - lastY)
         IN  (IF lastY # NoLastY /\ gap > MinGap /\ gap < HugeGap
                THEN <<gap>> ELSE <<>>)
             \o CollectGaps(items, k + 1, y)

RECURSIVE InsertAscending(_, _)
InsertAscending(sorted, x) ==
    IF sorted = <<>> THEN <<x>>
    ELSE IF Head(sorted) <= x
         THEN <<Head(sorted)>> \o InsertAscending(Tail(sorted), x)
         ELSE <<x>> \o sorted

\* line 50: verticalGaps.sort((a, b) => a - b)
RECURSIVE SortAscending(_)
SortAscending(gaps) ==
    IF gaps = <<>> THEN <<>>
    ELSE InsertAscending(SortAscending(Tail(gaps)), Head(gaps))

\* lines 56-58: verticalGaps[Math.floor(verticalGaps.length * tenths / 10)]
Percentile(sorted, tenths) == sorted[((Len(sorted) * tenths) \div 10) + 1]

\* Math.max
Max(x, y) == IF x >= y THEN x ELSE y

\* lines 22-70
analyzeDocumentLayout(items) ==
    LET verticalGaps == CollectGaps(items, 1, NoLastY)
        sorted == SortAscending(verticalGaps)
    IN  IF tooFewSamples(verticalGaps) THEN Fallback
        ELSE [sameLine |-> Max(Percentile(sorted, 2) * 8, 200),
              newLine |-> Max(Percentile(sorted, 5) * 15, 1000),
              paragraphBreak |-> Max(Percentile(sorted, 8) * 12, 2500)]

\* transform[5] of the text runs of a page, in tenths
RunYs == {-10, 0, 1, 210, 5210}

RunItems == {[blank |-> TRUE, y |-> 0]} \cup {[blank |-> FALSE, y |-> y] : y \in RunYs}

Pages == UNION {[1..n -> RunItems] : n \in 0..MaxRuns}

LayoutInit ==
    /\ ServiceInit
    /\ app = AppInit /\ store = StoreInit
    /\ \E items \in Pages : calc = [stage |-> "page", items |-> items]

AnalyzeLayout ==
    /\ calc.stage = "page"
    /\ calc' = [stage |-> "analyzed", items |-> calc.items,
                thresholds |-> analyzeDocumentLayout(calc.items)]
    /\ UNCHANGED <<serviceVars, app, store>>

LayoutNext == AnalyzeLayout

LayoutSpec == LayoutInit /\ [][LayoutNext]_vars

\* ============================================================ chunk manager
\* The chunk manager service (src/README.md lines 63-238).  A text is a
\* sequence of characters in which "NL" stands for the newline character.
DefaultMaxTokens == 800     \* line 72

\* line 207: Math.ceil(text.length / 4)
estimateTokens(text) == (Len(text) + 3) \div 4

\* index of the last character of the maximal run of characters of set that
\* starts at index k of t (t[k] is in set)
RECURSIVE RunEnd(_, _, _)
RunEnd(t, k, set) ==
    IF k + 1 <= Len(t) /\ t[k + 1] \in set THEN RunEnd(t, k + 1, set) ELSE k

\* text.split(/\n\n+/): the pieces between maximal runs of two or more newlines
RECURSIVE SplitOnBlankLines(_, _, _)
SplitOnBlankLines(t, k, piece) ==
    IF k > Len(t) THEN <<piece>>
    ELSE IF t[k] = "NL" /\ k + 1 <= Len(t) /\ t[k + 1] = "NL"
         THEN <<piece>> \o SplitOnBlankLines(t, RunEnd(t, k, {"NL"}) + 1, <<>>)
         ELSE SplitOnBlankLines(t, k + 1, Append(piece, t[k]))

NonBlank(s) == Trim(s) # <<>>

\* line 76
Paragraphs(text) == SelectSeq(SplitOnBlankLines(text, 1, <<>>), NonBlank)

Terminators == {".", "!", "?"}
Whitespace == {" ", "NL"}

\* lines 192-198: split(/([.!?]+[\s\n]+)/) and the reduce that glues every
\* separator to the piece before it
RECURSIVE SentencePieces(_, _, _)
SentencePieces(t, k, piece) ==
    IF k > Len(t) THEN <<piece>>
    ELSE IF t[k] \in Terminators
         THEN LET m == RunEnd(t, k, Terminators)
              IN  IF m + 1 <= Len(t) /\ t[m + 1] \in Whitespace
                    THEN LET w == RunEnd(t, m + 1, Whitespace)
                         IN  <<piece \o SubSeq(t, k, w)>> \o SentencePieces(t, w + 1, <<>>)
                    ELSE SentencePieces(t, m + 1, piece \o SubSeq(t, k, m))
         ELSE SentencePieces(t, k + 1, Append(piece, t[k]))

\* lines 189-200
splitIntoSentences(text) == SelectSeq(SentencePieces(text, 1, <<>>), NonBlank)

\* line 125: /^#{1,6}\s/.test(trimmedText)
MarkdownHeading(trimmed) ==
    /\ trimmed # <<>>
    /\ trimmed[1] = "#"
    /\ LET m == RunEnd(trimmed, 1, {"#"})
       IN  m <= 6 /\ m + 1 <= Len(trimmed) /\ trimmed[m + 1] \in Whitespace

\* lines 122-175.  The numbered, capitalized, explicit, list and table signals
\* need digits, capitals, '-', '*' or '|', which the model alphabet lacks.
ChunkType(trimmed) == IF MarkdownHeading(trimmed) THEN "heading" ELSE "paragraph"

\* lines 118-184
createChunk(text, position) ==
    LET trimmedText == Trim(text)
    IN  [id |-> "chunk_" \o ToString(position), text |-> trimmedText,
         position |-> position, type |-> ChunkType(trimmedText)]

\* the test made with the new piece alone
flushNeeded_pieceOnly(current, piece, maxTokens) ==
    current # <<>> /\ estimateTokens(piece) > maxTokens

\* lines 82-85 and line 96
flushNeeded(current, piece, maxTokens) ==
    current # <<>> /\ estimateTokens(current \o piece) > maxTokens

\* lines 86-87 and 97-98: chunks.push(createChunk(currentChunk, chunkPosition++))
Flush(acc) ==
    [chunks |-> Append(acc.chunks, createChunk(acc.current, acc.position)),
     current |-> <<>>,
     position |-> acc.position + 1]

\* lines 95-101
RECURSIVE AddSentences(_, _, _, _)
AddSentences(sentences, k, acc, maxTokens) ==
    IF k > Len(sentences) THEN acc
    ELSE LET flushed == IF flushNeeded(acc.current, sentences[k], maxTokens)
                          THEN Flush(acc) ELSE acc
         IN  AddSentences(sentences, k + 1,
                          [flushed EXCEPT !.current = @ \o sentences[k] \o <<" ">>],
                          maxTokens)

\* lines 81-105
RECURSIVE AddParagraphs(_, _, _, _)
AddParagraphs(paragraphs, k, acc, maxTokens) ==
    IF k > Len(paragraphs) THEN acc
    ELSE LET paragraph == paragraphs[k]
             flushed == IF flushNeeded(acc.current, paragraph, maxTokens)
                          THEN Flush(acc) ELSE acc
             added ==
                 IF estimateTokens(paragraph) > maxTokens
                   THEN AddSentences(splitIntoSentences(paragraph), 1, flushed, maxTokens)
                   ELSE [flushed EXCEPT !.current = @ \o paragraph \o <<"NL", "NL">>]
         IN  AddParagraphs(paragraphs, k + 1, added, maxTokens)

\* the last chunk is pushed whatever is left
hasRemainder_always(current) == TRUE

\* line 108
hasRemainder(current) == Trim(current) # <<>>

\* lines 72-113
splitIntoChunks(text, maxTokens) ==
    LET acc == AddParagraphs(Paragraphs(text), 1,
                             [chunks |-> <<>>, current |-> <<>>, position |-> 0],
                             maxTokens)
    IN  IF hasRemainder(acc.current)
          THEN Append(acc.chunks, createChunk(acc.current, acc.position))
          ELSE acc.chunks

\* lines 215-221
Spaced(chunk) ==
    IF chunk.type = "heading" THEN <<"NL", "NL">> \o chunk.text \o <<"NL">>
    ELSE chunk.text

\* line 222: .join('\n\n')
RECURSIVE JoinChunks(_, _)
JoinChunks(chunkList, k) ==
    IF k > Len(chunkList) THEN <<>>
    ELSE (IF k > 1 THEN <<"NL", "NL">> ELSE <<>>)
         \o Spaced(chunkList[k]) \o JoinChunks(chunkList, k + 1)

\* lines 213-224
reassembleChunks(chunkList) == Trim(JoinChunks(chunkList, 1))

TextAlphabet == {"a", ".", " ", "NL"}

TextPieces ==
    {<<"a", ".", " ">>, <<"a", "a", "a">>, <<"NL", "NL">>, <<"a", " ">>,
     <<".", "NL">>, <<"#", " ">>}

RECURSIVE Concat(_)
Concat(pieces) == IF pieces = <<>> THEN <<>> ELSE Head(pieces) \o Concat(Tail(pieces))

\* every short text, and longer texts put together from typical pieces
SourceTexts ==
    Strings(TextAlphabet, MaxTextLen)
        \cup {Concat(ps) : ps \in UNION {[1..n -> TextPieces] : n \in 0..MaxPieces}}

Budgets == 1..MaxBudget

ChunkInit ==
    /\ ServiceInit
    /\ app = AppInit /\ store = StoreInit
    /\ \E text \in SourceTexts, maxTokens \in Budgets :
          calc = [stage |-> "text", text |-> text, maxTokens |-> maxTokens]

SplitText ==
    /\ calc.stage = "text"
    /\ calc' = [stage |-> "split", text |-> calc.text, maxTokens |-> calc.maxTokens,
                chunks |-> splitIntoChunks(calc.text, calc.maxTokens)]
    /\ UNCHANGED <<serviceVars, app, store>>

ReassembleText ==
    /\ calc.stage = "split"
    /\ calc' = [stage |-> "joined", text |-> calc.text, maxTokens |-> calc.maxTokens,
                chunks |-> calc.chunks, joined |-> reassembleChunks(calc.chunks)]
    /\ UNCHANGED <<serviceVars, app, store>>

ChunkNext == SplitText \/ ReassembleText

ChunkSpec == ChunkInit /\ [][ChunkNext]_vars

\* ============================================================ glossary parser
\* src/unnamed/part_001 lines 42-77
validateGlossary(entries) ==
    LET errors == IF Len(entries) = 0 THEN <<"No glossary entries found">> ELSE <<>>
        emptyEntries ==
            {k \in 1..Len(entries) : entries[k].english = <<>> \/ entries[k].chinese = <<>>}
        duplicates ==
            {k \in 1..Len(entries) :
                \E j \in 1..(k - 1) :
                    toLowerCase(entries[j].english) = toLowerCase(entries[k].english)}
        warnings ==
            (IF emptyEntries # {}
               THEN <<[kind |-> "missing", count |-> Cardinality(emptyEntries)]>>
               ELSE <<>>)
            \o (IF duplicates # {}
                  THEN <<[kind |-> "duplicate", count |-> Cardinality(duplicates)]>>
                  ELSE <<>>)
    IN  [isValid |-> Len(errors) = 0, errors |-> errors, warnings |-> warnings]

\* ======================================================================= App
\* src/unnamed/part_003.  A state value that may be null is <<>> when null and
\* <<value>> when set.
DuplicateGlossary == <<Entry(<<"a">>), Entry(<<"A">>), [Entry(<<"b">>) EXCEPT !.chinese = <<>>]>>

\* what GlossaryUpload may hand to onGlossaryLoaded
AppGlossaries == {<<>>, DuplicateGlossary} \cup Glossaries

\* what DocumentUpload may hand to onDocumentLoaded
AppDocuments ==
    {[text |-> <<>>], [text |-> Str_ab_a], [text |-> Str_a_dot \o <<"NL", "NL">> \o Str_ab_a]}

\* the render condition without the test of the glossary length
canTranslate_noLength(a) ==
    /\ a.glossary # <<>>
    /\ a.document # <<>>
    /\ Len(a.chunks) > 0

\* line 183
canTranslate(a) ==
    /\ a.glossary # <<>>
    /\ Len(a.glossary[1]) > 0
    /\ a.document # <<>>
    /\ Len(a.chunks) > 0

\* lines 216-221: the start button is rendered, and it is not disabled
startButtonEnabled(a) ==
    /\ canTranslate(a)
    /\ a.status # "complete"
    /\ a.status # "translating"

\* lines 41-43
handleGlossaryLoaded(entries) ==
    /\ app' = [app EXCEPT !.glossary = <<entries>>]
    /\ UNCHANGED <<serviceVars, calc, store>>

\* lines 45-51
handleDocumentLoaded(doc) ==
    /\ app' = [app EXCEPT !.document = <<doc>>,
                          !.chunks = splitIntoChunks(doc.text, DefaultMaxTokens)]
    /\ UNCHANGED <<serviceVars, calc, store>>

\* lines 53-84: a click on the start button, up to the first await inside
\* translateChunks
handleStartTranslation ==
    /\ startButtonEnabled(app)
    /\ IF app.glossary = <<>> \/ app.document = <<>> \/ Len(app.chunks) = 0
         THEN UNCHANGED vars
         ELSE /\ app' = [app EXCEPT !.status = "translating", !.translatedChunks = <<>>]
              /\ translateChunksEntry(app.chunks, app.glossary[1], TRUE, FALSE)
              /\ UNCHANGED <<calc, store>>

\* lines 86-95: translateChunks resolved
handleTranslated ==
    /\ app.status = "translating"
    /\ app' = [app EXCEPT !.status = "complete", !.translatedChunks = translatedChunks]
    /\ translateChunksReturn
    /\ UNCHANGED <<calc, store>>

\* validateGlossary applied to a parsed entry list
ValidateEntries(entries) ==
    /\ calc' = [stage |-> "validated", entries |-> entries,
                result |-> validateGlossary(entries)]
    /\ UNCHANGED <<serviceVars, app, store>>

\* The App with the key of the environment (no rotation) and documents that
\* fit one chunk (no inter-call delay).
AppNext ==
    \/ \E entries \in AppGlossaries : handleGlossaryLoaded(entries)
    \/ \E doc \in AppDocuments : handleDocumentLoaded(doc)
    \/ \E entries \in AppGlossaries : ValidateEntries(entries)
    \/ handleStartTranslation
    \/ \E response \in Responses : RemoteSuccess(response)
    \/ \E error \in Errors : RateLimitBackoff(error)
    \/ \E error \in Errors : RateLimitExhausted(error)
    \/ \E error \in Errors : RemoteError(error)
    \/ BackoffFires
    \/ ResumeSuccess
    \/ ResumeFailure
    \/ handleTranslated

AppSpec == Init /\ [][AppNext]_vars

\* ================================================================ left margin
\* src/src/services/documentParser.ts, calculateLeftMargin.  x positions are
\* integers.
BinWidth == 5               \* line 93

\* line 93: Math.round(x / 5) * 5 (Math.round rounds a half upwards)
MarginBin(x) == ((2 * x + BinWidth) \div (2 * BinWidth)) * BinWidth

\* lines 79-82: the x positions of the non-blank runs
RECURSIVE XPositions(_)
XPositions(items) ==
    IF items = <<>> THEN <<>>
    ELSE (IF Head(items).blank THEN <<>> ELSE <<Head(items).x>>)
         \o XPositions(Tail(items))

\* ties keep the bin found first
prefersBin_never(count, maxCount, bin, dominantX) == FALSE

\* line 100
prefersBin(count, maxCount, bin, dominantX) == count = maxCount /\ bin < dominantX

CountOf(counts, bin) == IF bin \in DOMAIN counts THEN counts[bin] ELSE 0

\* lines 92-104: the loop; counts is the Map, st holds maxCount and dominantX
RECURSIVE CountBins(_, _, _, _)
CountBins(xs, k, counts, st) ==
    IF k > Len(xs) THEN st
    ELSE LET bin == MarginBin(xs[k])
             count == CountOf(counts, bin) + 1
             updated == [b \in DOMAIN counts \cup {bin} |->
                            IF b = bin THEN count ELSE counts[b]]
             next == IF count > st.maxCount
                       THEN [maxCount |-> count, dominantX |-> bin]
                       ELSE IF prefersBin(count, st.maxCount, bin, st.dominantX)
                              THEN [st EXCEPT !.dominantX = bin]
                              ELSE st
         IN  CountBins(xs, k + 1, updated, next)

\* lines 75-107
calculateLeftMargin(items) ==
    LET xPositions == XPositions(items)
    IN  IF Len(xPositions) = 0 THEN 0
        ELSE CountBins(xPositions, 1, <<>>,
                       [maxCount |-> 0, dominantX |-> xPositions[1]]).dominantX

\* transform[4] of the text runs of a page
RunXs == {-3, 8, 12, 50}

MarginItems == {[blank |-> TRUE, x |-> 0]} \cup {[blank |-> FALSE, x |-> x] : x \in RunXs}

MarginPages == UNION {[1..n -> MarginItems] : n \in 0..MaxRuns}

MarginInit ==
    /\ ServiceInit
    /\ app = AppInit /\ store = StoreInit
    /\ \E items \in MarginPages : calc = [stage |-> "runs", items |-> items]

LocateMargin ==
    /\ calc.stage = "runs"
    /\ calc' = [stage |-> "margin", items |-> calc.items,
                leftMargin |-> calculateLeftMargin(calc.items)]
    /\ UNCHANGED <<serviceVars, app, store>>

MarginNext == LocateMargin

MarginSpec == MarginInit /\ [][MarginNext]_vars

\* ======================================================== page reconstruction
\* src/src/services/documentParser.ts, extractStructuredContent: the loop that
\* merges the text runs of one page into lines.  y positions and vertical gaps
\* are in tenths of a unit (thresholds in hundredths, as above); x positions,
\* heights and widths are whole units.
MaxPageRuns == 4

DefaultHeight == 12         \* line 227
HeadingHeight == 12         \* line 228
IndentStep == 20            \* line 232
CharWidth == 6              \* line 240
ColumnGap == 30             \* line 253

HeadingMarker == <<"#", "#", " ">>
ColumnSeparator == <<" ", "|", " ">>

\* line 227: item.height || 12
HeightOf(item) == IF item.height # 0 THEN item.height ELSE DefaultHeight

\* lines 240, 246, 290: item.width || text.length * 6
WidthOf(item) == IF item.width # 0 THEN item.width ELSE Len(item.str) * CharWidth

\* line 228
isHeading(item) == HeightOf(item) > HeadingHeight

\* lines 231-232
IndentLevel(item, leftMargin) == Max(0, item.x - leftMargin) \div IndentStep

RECURSIVE Repeat(_, _)
Repeat(s, n) == IF n <= 0 THEN <<>> ELSE s \o Repeat(s, n - 1)

\* lines 278, 299
IndentString(currentIndent) == IF currentIndent > 0 THEN Repeat(<<" ", " ">>, currentIndent) ELSE <<>>

EndsWithHyphen(line) == line # <<>> /\ line[Len(line)] = "-"

\* lines 249-267: a run on the same line is appended to currentLine
JoinRun(currentLine, item, gapX) ==
    LET text == item.str
    IN  IF currentLine # <<>> /\ ~EndsWithHyphen(currentLine) /\ ~StartsWith(text, <<" ">>)
          THEN IF gapX > ColumnGap THEN currentLine \o ColumnSeparator \o text
               ELSE currentLine \o <<" ">> \o text
        ELSE IF EndsWithHyphen(currentLine)
          THEN IF text # <<>> /\ text[1] = LowerChar(text[1])
                 THEN SubSeq(currentLine, 1, Len(currentLine) - 1) \o text
                 ELSE currentLine \o text
        ELSE currentLine \o text

\* lines 277-281: the previous line is pushed when a run opens a new line; the
\* heading test is the one computed for the run being processed
PushPrevious(lines, currentLine, currentIndent, heading) ==
    IF Trim(currentLine) # <<>>
      THEN Append(lines, IF heading THEN HeadingMarker \o currentLine
                         ELSE IndentString(currentIndent) \o currentLine)
      ELSE lines

\* lines 297-301: the line still open at the end of the page
PushRemaining(lines, currentLine, currentIndent) ==
    IF Trim(currentLine) # <<>>
      THEN Append(lines, IndentString(currentIndent) \o currentLine)
      ELSE lines

PageStart == [lastY |-> NoLastY, lastX |-> 0, lastWidth |-> 0, currentLine |-> <<>>,
              currentIndent |-> 0, lines |-> <<>>, opener |-> 0, openers |-> <<>>]

\* lines 214-295: one iteration; opener is the index of the run that opened
\* currentLine and openers the opener of every pushed line (0 for the empty
\* line of a paragraph break), both kept for the properties only
PageStep(st, items, j, thresholds, leftMargin) ==
    LET item == items[j]
        text == item.str
        verticalGap == Abs(item.y - st.lastY)
    IN  IF Trim(text) = <<>> THEN st
        ELSE IF st.lastY = NoLastY
          THEN [st EXCEPT !.currentLine = text,
                          !.currentIndent = IndentLevel(item, leftMargin),
                          !.lastY = item.y, !.lastX = item.x,
                          !.lastWidth = IF HeightOf(item) > 0 THEN WidthOf(item) ELSE 0,
                          !.opener = j]
        ELSE IF verticalGap * 10 < thresholds.sameLine
          THEN [st EXCEPT !.currentLine = JoinRun(st.currentLine, item,
                                                  item.x - (st.lastX + st.lastWidth)),
                          !.lastX = item.x, !.lastWidth = WidthOf(item)]
        ELSE LET pushed == PushPrevious(st.lines, st.currentLine, st.currentIndent,
                                        isHeading(item))
                 pushedOpeners == IF Len(pushed) > Len(st.lines)
                                    THEN Append(st.openers, st.opener) ELSE st.openers
                 broken == verticalGap * 10 > thresholds.paragraphBreak
             IN  [st EXCEPT !.lines = IF broken THEN Append(pushed, <<>>) ELSE pushed,
                            !.openers = IF broken THEN Append(pushedOpeners, 0)
                                        ELSE pushedOpeners,
                            !.currentLine = text,
                            !.currentIndent = IndentLevel(item, leftMargin),
                            !.lastY = item.y, !.lastX = item.x,
                            !.lastWidth = WidthOf(item),
                            !.opener = j]

RECURSIVE PageLoop(_, _, _, _, _)
PageLoop(st, items, j, thresholds, leftMargin) ==
    IF j > Len(items) THEN st
    ELSE PageLoop(PageStep(st, items, j, thresholds, leftMargin), items, j + 1,
                  thresholds, leftMargin)

\* lines 199-301: the lines of one page and the run that opened each of them
ReconstructPage(items) ==
    LET thresholds == analyzeDocumentLayout(items)
        leftMargin == calculateLeftMargin(items)
        st == PageLoop(PageStart, items, 1, thresholds, leftMargin)
        lines == PushRemaining(st.lines, st.currentLine, st.currentIndent)
    IN  [lines |-> lines,
         openers |-> IF Len(lines) > Len(st.lines) THEN Append(st.openers, st.opener)
                     ELSE st.openers]

\* the text runs of a page: three baselines, body and heading heights, a run
\* in a second column, a hyphenated run and a whitespace run
Run(str, y, x, height) ==
    [blank |-> FALSE, str |-> str, y |-> y, x |-> x, height |-> height, width |-> 10]

PageYs == {6000, 5800, 5400}

PageRuns ==
    {Run(<<"a">>, y, 0, 12) : y \in PageYs}
    \cup {Run(<<"a">>, y, 0, 18) : y \in PageYs}
    \cup {Run(<<"b">>, y, 50, 12) : y \in PageYs}
    \cup {Run(<<"a", "-">>, 6000, 0, 0)}
    \cup {[blank |-> TRUE, str |-> <<" ">>, y |-> 6000, x |-> 0, height |-> 12, width |-> 0]}

PageItems == UNION {[1..n -> PageRuns] : n \in 0..MaxPageRuns}

PageInit ==
    /\ ServiceInit
    /\ app = AppInit /\ store = StoreInit
    /\ \E items \in PageItems : calc = [stage |-> "items", items |-> items]

ExtractPage ==
    /\ calc.stage = "items"
    /\ LET page == ReconstructPage(calc.items)
       IN  calc' = [stage |-> "lines", items |-> calc.items,
                    lines |-> page.lines, openers |-> page.openers]
    /\ UNCHANGED <<serviceVars, app, store>>

PageNext == ExtractPage

PageSpec == PageInit /\ [][PageNext]_vars

\* ============================================================ session store
\* src/src/services/geminiService.ts, StorageService (lines 478-659): the
\* projects object store with one project, and one call each of
\* updateProjectStatus and updateProjectProgress on it.  The database is open.
\* Every performTransaction is one IndexedDB transaction; store.get hands out a
\* copy of the stored record.
MaxStoredCount == 2

\* values of Project['status'] (the type is declared outside the services)
ProjectStatuses == {"translating", "paused", "completed"}

NoProject == [exists |-> FALSE, status |-> "", translatedChunks |-> 0, lastModified |-> 0]

StoredProjects ==
    {NoProject} \cup
    {[exists |-> TRUE, status |-> s, translatedChunks |-> n, lastModified |-> 0] :
        s \in ProjectStatuses, n \in 0..MaxStoredCount}

NoCall == [pc |-> "idle", arg |-> "", project |-> NoProject]

ProjectsInit ==
    /\ ServiceInit
    /\ app = AppInit /\ calc = NoCalc
    /\ \E project \in StoredProjects :
          store = [stage |-> "projects", project |-> project, clock |-> 1,
                   statusCall |-> NoCall, progressCall |-> NoCall]

\* lines 531-535, 636-654: the readonly transaction of getProject
getProject(stored) == stored

\* lines 510-514: store.put(project) replaces the stored record
saveProject(stored, project) == project

\* line 516 up to the await of getProject
updateProjectStatus(status) ==
    /\ store.stage = "projects"
    /\ store.statusCall.pc = "idle"
    /\ store' = [store EXCEPT !.statusCall = [pc |-> "reading", arg |-> status,
                                               project |-> NoProject]]
    /\ UNCHANGED <<serviceVars, app, calc>>

\* line 517: the transaction of getProject completes
StatusRead ==
    /\ store.stage = "projects"
    /\ store.statusCall.pc = "reading"
    /\ store' = [store EXCEPT !.statusCall.pc = "read",
                              !.statusCall.project = getProject(store.project)]
    /\ UNCHANGED <<serviceVars, app, calc>>

\* lines 518-522: the copy is changed and saved; Date.now() is the clock
StatusWrite ==
    /\ store.stage = "projects"
    /\ store.statusCall.pc = "read"
    /\ LET project == [store.statusCall.project EXCEPT
                           !.status = store.statusCall.arg,
                           !.lastModified = store.clock]
       IN  IF store.statusCall.project.exists
             THEN store' = [store EXCEPT
                               !.project = saveProject(store.project, project),
                               !.clock = store.clock + 1,
                               !.statusCall.pc = "done"]
             ELSE store' = [store EXCEPT !.statusCall.pc = "done"]
    /\ UNCHANGED <<serviceVars, app, calc>>

\* line 525 up to the await of getProject
updateProjectProgress(translatedCount) ==
    /\ store.stage = "projects"
    /\ store.progressCall.pc = "idle"
    /\ store' = [store EXCEPT !.progressCall = [pc |-> "reading", arg |-> translatedCount,
                                                 project |-> NoProject]]
    /\ UNCHANGED <<serviceVars, app, calc>>

\* line 526: the transaction of getProject completes
ProgressRead ==
    /\ store.stage = "projects"
    /\ store.progressCall.pc = "reading"
    /\ store' = [store EXCEPT !.progressCall.pc = "read",
                              !.progressCall.project = getProject(store.project)]
    /\ UNCHANGED <<serviceVars, app, calc>>

\* lines 527-530: the copy is changed and saved
ProgressWrite ==
    /\ store.stage = "projects"
    /\ store.progressCall.pc = "read"
    /\ LET project == [store.progressCall.project EXCEPT
                           !.translatedChunks = store.progressCall.arg]
       IN  IF store.progressCall.project.exists
             THEN store' = [store EXCEPT
                               !.project = saveProject(store.project, project),
                               !.progressCall.pc = "done"]
             ELSE store' = [store EXCEPT !.progressCall.pc = "done"]
    /\ UNCHANGED <<serviceVars, app, calc>>

ProjectsNext ==
    \/ \E status \in ProjectStatuses : updateProjectStatus(status)
    \/ \E translatedCount \in 0..MaxStoredCount : updateProjectProgress(translatedCount)
    \/ StatusRead
    \/ StatusWrite
    \/ ProgressRead
    \/ ProgressWrite

ProjectsSpec == ProjectsInit /\ [][ProjectsNext]_vars

\* ============================================================ user glossary
\* src/src/services/userGlossaryService.ts: the localStorage item
\* guided_translator_user_glossary.  The item holds the JSON text of a list of
\* entries made of strings, integers and string lists, which JSON.parse reads
\* back unchanged; the item is kept here as the list it encodes, absent when
\* the key is not set.
MaxFrequency == 5

HighFrequency == 5          \* line 150
MediumFrequency == 2        \* line 151

\* medium from the third application on
calculateConfidence_late(frequency) ==
    IF frequency >= HighFrequency THEN "high"
    ELSE IF frequency > MediumFrequency THEN "medium"
    ELSE "low"

\* lines 149-153
calculateConfidence(frequency) ==
    IF frequency >= HighFrequency THEN "high"
    ELSE IF frequency >= MediumFrequency THEN "medium"
    ELSE "low"

NoItem == [present |-> FALSE, value |-> <<>>]

\* lines 61-69
getUserGlossary(item) == IF item.present THEN item.value ELSE <<>>

\* lines 74-80
saveUserGlossary(list) == [present |-> TRUE, value |-> list]

\* lines 29-31: findIndex, 0 when no entry has the term
RECURSIVE FindIndex(_, _, _)
FindIndex(list, english, k) ==
    IF k > Len(list) THEN 0
    ELSE IF toLowerCase(list[k].english) = toLowerCase(english) THEN k
    ELSE FindIndex(list, english, k + 1)

Includes(contexts, context) == \E k \in 1..Len(contexts) : contexts[k] = context

\* lines 35-40
UpdatedEntry(entry, newChinese, context) ==
    [entry EXCEPT !.preferredChinese = newChinese,
                  !.frequency = entry.frequency + 1,
                  !.confidence = calculateConfidence(entry.frequency + 1),
                  !.contexts = IF Includes(entry.contexts, context) THEN entry.contexts
                               ELSE Append(entry.contexts, context)]

\* lines 43-51
NewEntry(english, oldChinese, newChinese, chunkPosition, context) ==
    [english |-> english, originalChinese |-> oldChinese,
     preferredChinese |-> newChinese, frequency |-> 1,
     firstSeenChunk |-> chunkPosition, confidence |-> "low",
     contexts |-> <<context>>]

\* the corrections a user makes: a term, the same term in another case with
\* another original translation, chunk and context, and a second term
Edit(english, oldChinese, newChinese, chunkPosition, context) ==
    [english |-> english, oldChinese |-> oldChinese, newChinese |-> newChinese,
     chunkPosition |-> chunkPosition, context |-> context]

UserEdits ==
    {Edit(<<"a">>, "zh-x", "zh-y", 0, "first"),
     Edit(<<"A">>, "zh-y", "zh-x", 1, "second"),
     Edit(<<"b">>, "zh-x", "zh-y", 1, "first")}

NoStorageCall == [op |-> "none", english |-> <<>>, oldChinese |-> ""]

GlossaryInit ==
    /\ ServiceInit
    /\ app = AppInit /\ calc = NoCalc
    /\ store = [stage |-> "glossary", item |-> NoItem, lastCall |-> NoStorageCall]

\* lines 21-56; lastCall records the call for the properties
addUserPreference(english, oldChinese, newChinese, chunkPosition, context) ==
    /\ store.stage = "glossary"
    /\ LET list == getUserGlossary(store.item)
           existingIndex == FindIndex(list, english, 1)
       IN  /\ existingIndex # 0 => list[existingIndex].frequency < MaxFrequency
           /\ store' = [store EXCEPT
                 !.item = saveUserGlossary(
                     IF existingIndex # 0
                       THEN [list EXCEPT ![existingIndex] =
                                UpdatedEntry(list[existingIndex], newChinese, context)]
                       ELSE Append(list, NewEntry(english, oldChinese, newChinese,
                                                  chunkPosition, context))),
                 !.lastCall = [op |-> "add", english |-> english,
                               oldChinese |-> oldChinese]]
    /\ UNCHANGED <<serviceVars, app, calc>>

\* lines 143-145
clearUserGlossary ==
    /\ store.stage = "glossary"
    /\ store' = [store EXCEPT !.item = NoItem,
                              !.lastCall = [op |-> "clear", english |-> <<>>,
                                            oldChinese |-> ""]]
    /\ UNCHANGED <<serviceVars, app, calc>>

GlossaryNext ==
    \/ \E edit \in UserEdits :
          addUserPreference(edit.english, edit.oldChinese, edit.newChinese,
                            edit.chunkPosition, edit.context)
    \/ clearUserGlossary

GlossarySpec == GlossaryInit /\ [][GlossaryNext]_vars

\* ================================================================== claims
SameChunk(out, in) ==
    /\ out.id = in.id
    /\ out.position = in.position
    /\ out.text = in.text
    /\ out.type = in.type

IsFailedMarker(out) ==
    /\ out.translation # <<>>
    /\ Head(out.translation) = "[Error: "
    /\ out.matchedTerms = <<>>

\* C1: the output list follows the input list element by element (same id,
\* position, text and type at every index), and the list translateChunks
\* returns has the length of its input, whatever the remote calls answered.
C1_OneOutputPerChunk ==
    /\ Len(translatedChunks) <= Len(chunks)
    /\ \A k \in 1..Len(translatedChunks) : SameChunk(translatedChunks[k], chunks[k])
    /\ pc = "done" => Len(translatedChunks) = Len(chunks)

\* a finished run over two different chunks, one failed and one translated
C1_Witness ==
    /\ pc = "done"
    /\ Len(chunks) = 2
    /\ chunks[1] # chunks[2]
    /\ fates = <<"exhausted", "ok">>

\* C2: a chunk whose retries are exhausted leaves a failed marker ("[Error: ..."
\* with no matched terms) at its own index, the batch goes on, and by the time
\* the batch returns a remote call has been issued for every later chunk.
C2_ExhaustedChunkIsMarked ==
    \A k \in 1..Len(fates) :
        fates[k] = "exhausted" =>
            /\ Len(translatedChunks) >= k - 1
            /\ (pc # "returned" \/ k < Len(fates)) =>
                   /\ Len(translatedChunks) >= k
                   /\ IsFailedMarker(translatedChunks[k])
            /\ pc = "done" =>
                   /\ Len(translatedChunks) = Len(chunks)
                   /\ \A j \in k..(Len(chunks) - 1) : j \in calledChunks

\* the first chunk ran out of retries and the second was translated afterwards
C2_Witness ==
    /\ pc = "done"
    /\ Len(fates) = 2
    /\ fates[1] = "exhausted"
    /\ fates[2] = "ok"
    /\ translatedChunks[2].matchedTerms # <<>>

LastFate == IF fates = <<>> THEN "none" ELSE fates[Len(fates)]

InCall == pc \in {"calling", "backoff", "returned"}

\* C3: in one retry cycle there are at most N rotations for a pool of N keys,
\* and once N rate-limit signals have come in during the cycle no further
\* remote call is pending: the cycle has ended in a backoff (or in failure).
C3_BackoffAfterNSignals ==
    InCall =>
        /\ Len(cycleAttempts) - 1 <= Len(KEY_POOL)
        /\ pc = "calling" => cycleSignals < Len(KEY_POOL)

\* C4: within one retry cycle no credential is used for two remote attempts.
C4_OneAttemptPerKey ==
    \A a, b \in 1..Len(cycleAttempts) :
        a # b => cycleAttempts[a] # cycleAttempts[b]

\* C5: the retry counter counts the backoffs of the current translateChunk call
\* only; at most maxRetries backoffs are started per chunk; the counter exceeds
\* maxRetries exactly when the chunk has failed for exhaustion, which happens
\* after maxRetries backoffs and starts no further timer.
C5_RetryCeiling ==
    /\ backoffs <= maxRetries
    /\ pc \in {"calling", "backoff"} => retries = backoffs /\ retries <= maxRetries
    /\ (pc = "returned" /\ LastFate = "exhausted") =>
           /\ retries = maxRetries + 1
           /\ backoffs = maxRetries
           /\ timer = 0
    /\ retries > maxRetries => LastFate = "exhausted" /\ pc \in {"returned", "done"}

\* the second chunk of a batch ran out of retries after the first one had too
C5_Witness ==
    /\ pc = "returned"
    /\ fates = <<"exhausted", "exhausted">>

\* the catch block of translateChunk handles this error in this step
ErrorArrives(error) ==
    \/ RateLimitRotate(error)
    \/ RateLimitBackoff(error)
    \/ RateLimitExhausted(error)
    \/ RemoteError(error)

\* C6: an error that is not a rate-limit signal makes translateChunk throw in
\* the same step: no call is pending afterwards, no timer is started, the key
\* pool, cursor and client are untouched; the batch then pushes the failed
\* marker for that chunk and any call it issues next is for the next chunk.
C6_GenericErrorFailsAtOnce ==
    [][ /\ \A error \in Errors :
              (pc = "calling" /\ ~IsRateLimit(error) /\ ErrorArrives(error)) =>
                  /\ pc' = "returned"
                  /\ ~settled'.ok
                  /\ inFlight' = {}
                  /\ timer' = 0
                  /\ keyVars' = keyVars
                  /\ rotations' = rotations
                  /\ backoffs' = backoffs
                  /\ remoteCalls' = remoteCalls
        /\ (pc = "returned" /\ LastFate = "error") =>
              /\ Len(translatedChunks') = Len(translatedChunks) + 1
              /\ Len(translatedChunks') = i + 1
              /\ IsFailedMarker(translatedChunks'[i + 1])
              /\ SameChunk(translatedChunks'[i + 1], chunks[i + 1])
              /\ keyVars' = keyVars
              /\ \A c \in inFlight' : c.chunk = i + 1
              /\ timer' = 0
      ]_vars

\* a generic error arrived after the call had already rotated keys
C6_Witness ==
    /\ pc = "returned"
    /\ LastFate = "error"
    /\ rotations >= 1

\* C7: at most one remote call is pending; it belongs to the chunk at the loop
\* index, and it is pending only when the outputs of all earlier chunks (and
\* no others) have been pushed; chunks are called in increasing index order.
C7_OneCallAtATime ==
    /\ Cardinality(inFlight) <= 1
    /\ \A c \in inFlight :
          /\ pc = "calling"
          /\ c.chunk = i
          /\ Len(translatedChunks) = c.chunk
    /\ \A k \in calledChunks : k <= i /\ \A j \in 0..k : j \in calledChunks

\* a retried call for the second chunk is pending
C7_Witness ==
    /\ pc = "calling"
    /\ i = 1
    /\ inFlight # {}
    /\ rotations >= 1

\* C8: when every remote call returns and every timer fires, a started run
\* reaches the point where translateChunks returns one output per input chunk.
C8_RunCompletes ==
    (pc \in {"calling", "backoff", "returned", "interDelay"})
        ~> (pc = "done" /\ Len(translatedChunks) = Len(chunks))

\* a run in which every remote call was answered by a rate-limit signal
C8_Witness ==
    /\ pc = "done"
    /\ Len(chunks) = 2
    /\ fates = <<"exhausted", "exhausted">>
    /\ Len(KEY_POOL) >= 2

\* C9: with a progress callback supplied, one progress event (k, total) has
\* been reported for each of the k chunks completed so far.
C9_ProgressAfterEveryChunk ==
    onProgress =>
        progressLog = [k \in 1..Len(translatedChunks) |-> <<k, Len(chunks)>>]

CountKind(log, kind) == Cardinality({k \in 1..Len(log) : log[k].kind = kind})

\* C10: with a status callback supplied, the status invocations of a
\* translateChunk call are one "switch" per rotation and one "pause" per
\* started backoff, and nothing else.
C10_StatusPerRotationAndBackoff ==
    IF onStatusUpdate
      THEN /\ Len(statusLog) = rotations + backoffs
           /\ CountKind(statusLog, "switch") = rotations
           /\ CountKind(statusLog, "pause") = backoffs
      ELSE statusLog = <<>>

\* a call that rotated, backed off and finally gave up, with the callback supplied
C10_Witness ==
    /\ onStatusUpdate
    /\ pc = "returned"
    /\ LastFate = "exhausted"
    /\ rotations >= 2
    /\ backoffs >= 1

KeyStateChanges == KEY_POOL' # KEY_POOL \/ currentKeyIndex' # currentKeyIndex

\* a step in which translateChunk rotated the key (lines 95-103)
IsRotationStep ==
    /\ pc = "calling"
    /\ rotations' = rotations + 1
    /\ Len(KEY_POOL) > 1
    /\ KEY_POOL' = KEY_POOL
    /\ currentKeyIndex' = (currentKeyIndex + 1) % Len(KEY_POOL)

\* a step in which setApiKeys installed a non-empty key list (lines 12-19)
IsSetApiKeysStep ==
    /\ pc = "idle" /\ pc' = "idle"
    /\ Len(KEY_POOL') > 0
    /\ currentKeyIndex' = 0

\* C11 as stated: the key pool and the current index change only in the
\* rotation step of translateChunk.
C11_OnlyRotationMutates == [][KeyStateChanges => IsRotationStep]_vars

\* C11 amended: the pool contents change only when setApiKeys installs a
\* non-empty list (which also resets the index to 0); apart from that the index
\* changes only in the rotation step, which advances it by one modulo the pool
\* size and leaves the pool as it is. No other operation of the service
\* changes either of them.
C11_OnlySetKeysAndRotationMutate ==
    [][KeyStateChanges => (IsRotationStep \/ IsSetApiKeysStep)]_vars

\* a pool installed by setApiKeys whose cursor a rotation has moved
C11_Witness ==
    /\ Len(KEY_POOL) = MaxKeys
    /\ KEY_POOL # <<EnvKey>>
    /\ rotations >= 1
    /\ currentKeyIndex = 1

\* C20: in the step in which translateChunk rotates the key, the remote call
\* for the same chunk is issued again at once (no timer is started, the batch
\* is waiting for the call and for nothing else), that call carries the key at
\* (previous index + 1) mod N of the pool, and retries keeps its value.
C20_RotationRetriesAtOnce ==
    [][rotations' = rotations + 1 =>
          /\ pc' = "calling"
          /\ timer' = 0
          /\ retries' = retries
          /\ i' = i
          /\ \E call \in inFlight' :
                /\ inFlight' = {call}
                /\ call.chunk = i
                /\ call.key = KEY_POOL[((currentKeyIndex + 1) % Len(KEY_POOL)) + 1]]_vars

\* a call in flight that a rotation issued, after a backoff had raised retries
\* and with the cursor wrapped around to the first key
C20_Witness ==
    /\ pc = "calling"
    /\ Len(KEY_POOL) >= 2
    /\ keysTried >= 1
    /\ retries >= 1
    /\ currentKeyIndex = 0
    /\ \E call \in inFlight : call.key = KEY_POOL[1]

EnglishOf(entries) == {entries[k].english : k \in 1..Len(entries)}

\* C16: when the remote call for a chunk succeeds, the glossary entries that
\* were placed in that call (findRelevantTerms) are exactly the entries listed
\* in the matchedTerms of the translated chunk (identifyTermsInText).
C16_ConstraintListIsMatchedTerms ==
    [][(pc = "calling" /\ settled'.settled /\ settled'.ok) =>
          \A call \in inFlight :
              call.chunk = i =>
                  EnglishOf(call.terms) = EnglishOf(settled'.value[1].matchedTerms)]_vars

\* whole-word occurrences (1-based start indices) of term in text, both lower-cased
Occurrences(text, term) ==
    {p \in 1..Len(text) : BoundedMatchAt(toLowerCase(text), toLowerCase(term), p)}

\* the occurrence of short at q lies inside an occurrence of long
InsideCompound(text, long, short, q) ==
    \E p \in Occurrences(text, long) : p <= q /\ q + Len(short) <= p + Len(long)

\* long is a compound that contains short as a whole word, and in text short
\* occurs only inside occurrences of long
OnlyInsideCompound(text, long, short) ==
    /\ Len(short) < Len(long)
    /\ Occurrences(long, short) # {}
    /\ Occurrences(text, long) # {}
    /\ \A q \in Occurrences(text, short) : InsideCompound(text, long, short, q)

\* C15: when the glossary holds a compound term and a shorter term contained
\* in it, and in a chunk text the shorter term occurs only inside the compound,
\* the chunk's matchedTerms hold a match for the compound and no match for the
\* shorter term at an offset inside the compound.
C15_LongestMatchFirst ==
    calc.stage = "matched" =>
        \A k \in 1..Len(calc.texts) :
            \A a \in 1..Len(calc.glossary), b \in 1..Len(calc.glossary) :
                LET text == calc.texts[k]
                    long == calc.glossary[a].english
                    short == calc.glossary[b].english
                    found == calc.translated[k].matchedTerms
                IN  OnlyInsideCompound(text, long, short) =>
                        /\ \E m \in 1..Len(found) : found[m].english = long
                        /\ \A m \in 1..Len(found) :
                              found[m].english = short =>
                                  \A n \in 1..Len(found[m].positions) :
                                      ~InsideCompound(text, long, short,
                                                      found[m].positions[n] + 1)

\* the entry appears in the matchedTerms of at least one chunk
AppearsInSomeChunk(translated, entry) ==
    \E k \in 1..Len(translated) :
        \E m \in 1..Len(translated[k].matchedTerms) :
            translated[k].matchedTerms[m].english = entry.english

\* C17: the coverage computed after a batch has matched <= total and a
\* percentage in 0..100; the percentage is 0 for an empty glossary, and for a
\* non-empty glossary it is 100 exactly when every glossary term appears in the
\* matchedTerms of some chunk.
C17_CoverageIsFractionOfTerms ==
    calc.stage = "covered" =>
        LET c == calc.coverage
            g == calc.glossary
        IN  /\ c.matched <= c.total
            /\ c.percentage \in 0..100
            /\ Len(g) = 0 => c.percentage = 0
            /\ Len(g) > 0 =>
                  (c.percentage = 100 <=>
                      \A k \in 1..Len(g) : AppearsInSomeChunk(calc.translated, g[k]))

\* the y coordinates of the non-blank runs of a page, in reading order
RECURSIVE RunPositions(_)
RunPositions(items) ==
    IF items = <<>> THEN <<>>
    ELSE (IF Head(items).blank THEN <<>> ELSE <<Head(items).y>>)
         \o RunPositions(Tail(items))

\* the vertical gaps between consecutive runs that lie in (0.1, 500)
GapSamples(items) ==
    LET ys == RunPositions(items)
    IN  {k \in 1..(Len(ys) - 1) :
            Abs(ys[k + 1] - ys[k]) > MinGap /\ Abs(ys[k + 1] - ys[k]) < HugeGap}

\* C18: a page with fewer than 5 vertical-gap samples in (0.1, 500), in
\* particular one with zero or one text run, gets exactly the thresholds
\* {sameLine: 3, newLine: 15, paragraphBreak: 30}; a page with 5 or more
\* samples gets sameLine >= 2, newLine >= 10 and paragraphBreak >= 25.
C18_LayoutThresholds ==
    calc.stage = "analyzed" =>
        LET n == Cardinality(GapSamples(calc.items))
            t == calc.thresholds
        IN  /\ n < 5 => t = [sameLine |-> 300, newLine |-> 1500, paragraphBreak |-> 3000]
            /\ n >= 5 => (t.sameLine >= 200 /\ t.newLine >= 1000 /\ t.paragraphBreak >= 2500)

\* a page with five runs and four samples, analysed
C18_Witness ==
    /\ calc.stage = "analyzed"
    /\ Len(RunPositions(calc.items)) = 5
    /\ Cardinality(GapSamples(calc.items)) = 4
    /\ calc.thresholds = Fallback

\* the sentences splitIntoSentences finds in the paragraphs of a text
SentencesOf(text) ==
    UNION {{splitIntoSentences(Paragraphs(text)[p])[s] :
               s \in 1..Len(splitIntoSentences(Paragraphs(text)[p]))} :
           p \in 1..Len(Paragraphs(text))}

OverBudget(chunk, maxTokens) == (Len(chunk.text) + 3) \div 4 > maxTokens

\* C12: every chunk splitIntoChunks emits has ceil(length / 4) <= budget,
\* unless its text is one single sentence of the input that alone exceeds the
\* budget.
C12_ChunksWithinBudget ==
    calc.stage = "split" =>
        \A k \in 1..Len(calc.chunks) :
            OverBudget(calc.chunks[k], calc.maxTokens) =>
                \E s \in SentencesOf(calc.text) : Trim(s) = calc.chunks[k].text

\* a split in which one chunk is a single over-long sentence and another
\* chunk holds several words within the budget
C12_Witness ==
    /\ calc.stage = "split"
    /\ \E k \in 1..Len(calc.chunks) : OverBudget(calc.chunks[k], calc.maxTokens)
    /\ \E k \in 1..Len(calc.chunks) :
          /\ ~OverBudget(calc.chunks[k], calc.maxTokens)
          /\ \E j \in 1..Len(calc.chunks[k].text) : calc.chunks[k].text[j] \in Whitespace

\* C13: the chunks splitIntoChunks returns carry the positions 0, 1, 2, ... in
\* output order, the id of each is built from its position (so no two chunks
\* share an id), and none has an empty text.
C13_PositionsIdsAndText ==
    calc.stage = "split" =>
        /\ \A k \in 1..Len(calc.chunks) :
              /\ calc.chunks[k].position = k - 1
              /\ calc.chunks[k].id = "chunk_" \o ToString(k - 1)
              /\ calc.chunks[k].text # <<>>
        /\ \A j, k \in 1..Len(calc.chunks) :
              j # k => calc.chunks[j].id # calc.chunks[k].id

\* a text split into at least three chunks, all flushed by different paths
C13_Witness ==
    /\ calc.stage = "split"
    /\ Len(calc.chunks) >= 3
    /\ Len(Paragraphs(calc.text)) >= 2
    /\ calc.chunks[3].position = 2

\* the non-blank paragraphs of a text, each without surrounding whitespace
TrimmedParagraphs(text) ==
    [p \in 1..Len(Paragraphs(text)) |-> Trim(Paragraphs(text)[p])]

\* C14: when the input holds paragraphs only (no chunk is a heading), the text
\* reassembleChunks builds from the chunks of splitIntoChunks has the same
\* non-blank paragraphs as the input, in the same order and with the same
\* content, also when a paragraph exceeds the budget and is split into
\* sentences.
C14_SplitThenReassemble ==
    (calc.stage = "joined" /\ \A k \in 1..Len(calc.chunks) : calc.chunks[k].type = "paragraph")
        => TrimmedParagraphs(calc.joined) = TrimmedParagraphs(calc.text)

\* C19: a run of translateChunks started by the App, and so every remote call
\* it issues, has a loaded, non-empty glossary; and validateGlossary reports an
\* empty entry list as invalid.
C19_NoRunWithoutGlossary ==
    /\ (pc # "idle" \/ inFlight # {}) => (app.status = "translating" /\ Len(glossary) > 0)
    /\ (calc.stage = "validated" /\ Len(calc.entries) = 0) =>
          (~calc.result.isValid /\ calc.result.errors # <<>>)

\* a remote call is in flight after an empty glossary had been loaded and
\* replaced, and an empty entry list has been validated
C19_Witness ==
    /\ inFlight # {}
    /\ app.status = "translating"
    /\ app.glossary = <<<<>>>>
    /\ calc.stage = "validated"
    /\ Len(calc.entries) = 0

\* C21: the k-th backoff of a translateChunk call waits baseDelay * k = 3000 * k
\* ms (3000, 6000, 9000, ...), never more than 15000 ms, and when the backoff
\* ends the tried-keys count is 0, so that the next rate-limit signal may
\* rotate again.
C21_BackoffDelays ==
    [][/\ pc' = "backoff" =>
             /\ timer' = 3000 * backoffs'
             /\ timer' = baseDelay * retries'
             /\ timer' <= 15000
       /\ (pc = "backoff" /\ pc' # "backoff") =>
             /\ keysTried' = 0
             /\ pc' = "calling" => mayRotate(keysTried', KEY_POOL)]_vars

\* the fifth backoff of a call, started after the keys of a pool were tried
C21_Witness ==
    /\ pc = "backoff"
    /\ timer = 15000
    /\ backoffs = 5
    /\ Len(KEY_POOL) >= 2
    /\ keysTried >= 1

\* C22: when a chunk was translated successfully and is not the last of the
\* batch, translateChunks waits 2000 ms with no call in flight and only then
\* issues the first remote call of the next chunk; after the last chunk it
\* starts no timer and returns.
C22_InterCallDelay ==
    [][/\ (pc = "returned" /\ settled.ok) =>
             IF i < Len(chunks) - 1
               THEN pc' = "interDelay" /\ timer' = 2000 /\ inFlight' = {} /\ i' = i
               ELSE pc' = "done" /\ timer' = 0 /\ inFlight' = {}
       /\ (i' = i + 1 /\ pc' = "calling" /\ fates[i + 1] = "ok") =>
             (pc = "interDelay" /\ timer = interCallDelay)
       /\ pc = "interDelay" =>
             (pc' = "calling" /\ i' = i + 1 /\ \E call \in inFlight' : call.chunk = i')]_vars

\* the first call of the second chunk, in flight after the pause that followed
\* the successful first chunk
C22_Witness ==
    /\ pc = "calling"
    /\ i = 1
    /\ remoteCalls = 1
    /\ Len(fates) = 1 /\ fates[1] = "ok"
    /\ Len(chunks) = 2

Ascending(positions) ==
    \A m \in 1..(Len(positions) - 1) : positions[m] < positions[m + 1]

\* C23: for every text and glossary identifyTermsInText returns one match per
\* glossary entry that has a case-insensitive whole-word occurrence in the text
\* and none for the other entries; the positions of a match are strictly
\* ascending and are exactly the 0-based starting offsets of all occurrences of
\* the term, wherever they lie; the text is left as it was.
C23_MatcherFindsEveryOccurrence ==
    calc.stage = "matched" =>
        \A k \in 1..Len(calc.texts) :
            LET text == calc.texts[k]
                g == calc.glossary
                found == calc.translated[k].matchedTerms
                present == {e \in 1..Len(g) : Occurrences(text, g[e].english) # {}}
            IN  /\ calc.translated[k].text = text
                /\ Len(found) = Cardinality(present)
                /\ \A e \in 1..Len(g) :
                      e \in present <=> \E m \in 1..Len(found) : found[m].english = g[e].english
                /\ \A m \in 1..Len(found) :
                      /\ Ascending(found[m].positions)
                      /\ {found[m].positions[n] : n \in 1..Len(found[m].positions)}
                            = {p - 1 : p \in Occurrences(text, found[m].english)}

\* x rounded to the nearest multiple of 5
NearestFive(x) == CHOOSE b \in {5 * n : n \in -2..12} : 2 * (x - b) >= -5 /\ 2 * (x - b) < 5

\* how many runs of xs fall into bin b
FinalCount(xs, b) == Cardinality({k \in 1..Len(xs) : NearestFive(xs[k]) = b})

\* C25: for a page with at least one run, calculateLeftMargin returns the bin
\* with the highest final count, and the leftmost such bin when several share
\* it, whatever the order of the runs.
C25_LeftmostDominantBin ==
    (calc.stage = "margin" /\ XPositions(calc.items) # <<>>) =>
        LET xs == XPositions(calc.items)
            bins == {NearestFive(xs[k]) : k \in 1..Len(xs)}
            top == {b \in bins : \A c \in bins : FinalCount(xs, c) <= FinalCount(xs, b)}
        IN  /\ calc.leftMargin \in top
            /\ \A b \in top : calc.leftMargin <= b

\* two bins tied at the highest count, the right one filled first
C25_Witness ==
    /\ calc.stage = "margin"
    /\ LET xs == XPositions(calc.items)
       IN  /\ Len(xs) >= 4
           /\ xs[1] = 50 /\ xs[2] = 50
           /\ FinalCount(xs, 50) = 2 /\ FinalCount(xs, 10) = 2
           /\ calc.leftMargin = 10

\* C24: every line of a reconstructed page carries the heading marker exactly
\* when the run that opened the line is taller than 12, the last line of the
\* page included; the height of the run that opens the following line plays
\* no part.
C24_MarkerFollowsOpeningRun ==
    calc.stage = "lines" =>
        \A k \in 1..Len(calc.lines) :
            calc.openers[k] # 0 =>
                (StartsWith(calc.lines[k], HeadingMarker)
                    <=> HeightOf(calc.items[calc.openers[k]]) > 12)

\* C26: whatever the interleaving of setApiKeys calls (with an empty list too,
\* and while translateChunk is suspended on a remote call or a timer) and key
\* rotations, the key pool is never empty and the key cursor is a valid index
\* into it.
C26_CursorInsidePool ==
    /\ Len(KEY_POOL) > 0
    /\ currentKeyIndex >= 0
    /\ currentKeyIndex < Len(KEY_POOL)

\* a single-key list installed during a call that had already rotated
C26_Witness ==
    /\ pc = "calling"
    /\ keysTried >= 1
    /\ Len(KEY_POOL) = 1

C28_CallsAndRotationsBounded ==
    pc \in {"calling", "backoff", "returned"} =>
        LET N == Len(KEY_POOL)
        IN  /\ N = 1 => remoteCalls <= 6
            /\ N >= 2 => remoteCalls <= 6 * (N + 1)
            /\ rotations <= 6 * N

\* a call that gave up on a pool of two keys after 18 remote calls and 12
\* rotations
C28_Witness ==
    /\ pc = "returned"
    /\ ~settled.ok
    /\ Len(KEY_POOL) = 2
    /\ remoteCalls = 18
    /\ rotations = 12

\* C29: when updateProjectStatus and updateProjectProgress have both run on
\* the same stored project, in whatever order their read and write
\* transactions interleaved, the stored project has the new status and the
\* new count of translated chunks.
C29_NoLostUpdate ==
    (/\ store.stage = "projects"
     /\ store.project.exists
     /\ store.statusCall.pc = "done"
     /\ store.progressCall.pc = "done") =>
        /\ store.project.status = store.statusCall.arg
        /\ store.project.translatedChunks = store.progressCall.arg

ConfidenceFor(frequency) ==
    IF frequency = 1 THEN "low" ELSE IF frequency <= 4 THEN "medium" ELSE "high"

StoredGlossary(s) == IF s.item.present THEN s.item.value ELSE <<>>

\* C30: after every addUserPreference or clearUserGlossary call the stored
\* user glossary has at most one entry per English term compared without
\* case, every entry has frequency at least 1 and the confidence its frequency
\* gives (low at 1, medium from 2 to 4, high from 5), and an entry that was
\* already stored keeps its originalChinese and its firstSeenChunk.
C30_UserGlossaryWellFormed ==
    [][store'.stage = "glossary" =>
          LET old == StoredGlossary(store)
              new == StoredGlossary(store')
          IN  /\ \A m, n \in 1..Len(new) :
                    toLowerCase(new[m].english) = toLowerCase(new[n].english) => m = n
              /\ \A n \in 1..Len(new) :
                    /\ new[n].frequency >= 1
                    /\ new[n].confidence = ConfidenceFor(new[n].frequency)
              /\ \A m \in 1..Len(old), n \in 1..Len(new) :
                    toLowerCase(old[m].english) = toLowerCase(new[n].english) =>
                        /\ new[n].originalChinese = old[m].originalChinese
                        /\ new[n].firstSeenChunk = old[m].firstSeenChunk]_vars

\* the term stored as "a" with zh-x, applied five times, the last time as "A"
\* with another original translation, next to a second term
C30_Witness ==
    /\ store.stage = "glossary"
    /\ store.lastCall = [op |-> "add", english |-> <<"A">>, oldChinese |-> "zh-y"]
    /\ Len(StoredGlossary(store)) = 2
    /\ \E n \in 1..2 :
          LET entry == StoredGlossary(store)[n]
          IN  /\ entry.english = <<"a">>
              /\ entry.originalChinese = "zh-x"
              /\ entry.frequency = 5
              /\ entry.confidence = "high"

====
